---------------------------- MODULE Spec2Model ----------------------------
(***************************************************************************)
(* The DCA dashboard's signal and allocation engine.                       *)
(*                                                                         *)
(* Two entry points are modelled, each as one evaluation pass (one run of  *)
(* the script from top to bottom):                                         *)
(*   "app"  : streamlit_app.py          (weighted scores, shift-normalise) *)
(*   "dash" : dca_dashboard_streamlit.py (green counts, arbitrage alerts)  *)
(*                                                                         *)
(* Numbers are IEEE doubles in the program.  They are modelled as exact    *)
(* extended rationals <<n, d>>:  d > 0 a reduced fraction, <<1,0>> and     *)
(* <<-1,0>> the infinities, <<0,0>> NaN (numpy divides by zero without     *)
(* raising).  A price series is run-length encoded: a sequence of runs     *)
(* [na, v, c], c copies of price v (or of a missing value when na).        *)
(***************************************************************************)
EXTENDS Integers, Sequences, FiniteSets

VARIABLES
    script,        \* which entry point runs: "app" or "dash"
    prices,        \* asset id -> series; ids are the names in string order
    order,         \* iteration order of the price mapping (a permutation)
    threshold_pct, \* app: sidebar slider "Seuil deviation (%)"
    thresholds,    \* dash: multiselect "Seuils arbitrage"
    session,       \* app: st.session_state["win_<name>"], "" when unset
    clicked,       \* app: the badge button whose click triggered this run
    pc,            \* position of the script
    idx,           \* index of the card loop
    raw_scores,    \* app: asset -> composite score
    allocations,   \* asset -> allocation (app: line 51, dash: line 113)
    deltas,        \* asset -> pct_change
    green_counts,  \* dash: asset -> number of green windows
    m,             \* app: the script-level variable m of the badge loop
    emitted,       \* dash: the alerts written so far, in order
    prev,          \* results of the previous run of the script, if any
    runs           \* number of runs started

vars == <<script, prices, order, threshold_pct, thresholds, session, clicked,
          pc, idx, raw_scores, allocations, deltas, green_counts, m, emitted,
          prev, runs>>

---------------------------------------------------------------------------
(* Bounds of the model *)

MaxAssetsApp == 2

MaxAssetsDash == 4

MaxRuns == 2

---------------------------------------------------------------------------
(* Extended rational arithmetic (IEEE semantics without rounding) *)

AbsInt(x) == IF x < 0 THEN -x ELSE x

Sgn(x) == IF x < 0 THEN -1 ELSE IF x > 0 THEN 1 ELSE 0

RECURSIVE GCD(_, _)
GCD(a, b) == IF b = 0 THEN a ELSE GCD(b, a % b)

Norm(n, d) ==
    IF d = 0 THEN <<Sgn(n), 0>>
    ELSE LET g == GCD(AbsInt(n), AbsInt(d))
             s == Sgn(d)
         IN  <<(s * n) \div g, (s * d) \div g>>

NaN == <<0, 0>>

Zero == <<0, 1>>

IntVal(k) == <<k, 1>>

IsNaN(a) == a = NaN

IsFinite(a) == a[2] > 0

FSub(a, b) ==
    IF IsNaN(a) \/ IsNaN(b) THEN NaN
    ELSE IF IsFinite(a) /\ IsFinite(b)
         THEN Norm(a[1] * b[2] - b[1] * a[2], a[2] * b[2])
    ELSE IF IsFinite(b) THEN a
    ELSE IF IsFinite(a) THEN <<-b[1], 0>>
    ELSE IF a[1] = b[1] THEN NaN ELSE a

FAdd(a, b) == FSub(a, FSub(Zero, b))

\* only ever applied to finite or NaN operands
FDiv(a, b) ==
    IF IsNaN(a) \/ IsNaN(b) THEN NaN
    ELSE Norm(a[1] * b[2], a[2] * b[1])

FMulInt(a, k) ==
    IF IsNaN(a) THEN NaN
    ELSE IF IsFinite(a) THEN Norm(a[1] * k, a[2])
    ELSE a

FAbs(a) == <<AbsInt(a[1]), a[2]>>

FLt(a, b) ==
    /\ ~IsNaN(a)
    /\ ~IsNaN(b)
    /\ IF a[2] = 0 /\ b[2] = 0 THEN a[1] < b[1]
       ELSE a[1] * b[2] < b[1] * a[2]

FGt(a, b) == FLt(b, a)

FGe(a, b) == ~IsNaN(a) /\ ~IsNaN(b) /\ ~FLt(a, b)

---------------------------------------------------------------------------
(* Series: len, dropna, iloc[-k], tail(w).mean() *)

Run(v, c) == [na |-> FALSE, v |-> v, c |-> c]

Missing(c) == [na |-> TRUE, v |-> 0, c |-> c]

RECURSIVE SLen(_)
SLen(s) == IF s = <<>> THEN 0 ELSE s[1].c + SLen(Tail(s))

KeepRun(r) == ~r.na

dropna(s) == SelectSeq(s, KeepRun)

\* s.iloc[-k], for 1 <= k <= len(s)
RECURSIVE iloc(_, _)
iloc(s, k) ==
    LET r == s[Len(s)]
    IN  IF k <= r.c
        THEN (IF r.na THEN NaN ELSE IntVal(r.v))
        ELSE iloc(SubSeq(s, 1, Len(s) - 1), k - r.c)

\* <<sum, count>> of the non-missing values among the last w observations
RECURSIVE TailAcc(_, _)
TailAcc(s, w) ==
    IF w = 0 \/ s = <<>> THEN <<0, 0>>
    ELSE LET r    == s[Len(s)]
             take == IF r.c < w THEN r.c ELSE w
             rest == TailAcc(SubSeq(s, 1, Len(s) - 1), w - take)
         IN  IF r.na THEN rest
             ELSE <<rest[1] + r.v * take, rest[2] + take>>

\* pandas: the mean skips missing values and is NaN when none is left
TailMean(s, w) == LET acc == TailAcc(s, w) IN Norm(acc[1], acc[2])

---------------------------------------------------------------------------
(* Configuration *)

timeframes == <<[lbl |-> "Hebdo",       w |-> 5],
                [lbl |-> "Mensuel",     w |-> 21],
                [lbl |-> "Trimestriel", w |-> 63],
                [lbl |-> "Annuel",      w |-> 252],
                [lbl |-> "5 ans",       w |-> 1260]>>

\* constants.TIMEFRAMES of the app: the same table
TIMEFRAMES == timeframes

Ceiling == 50

---------------------------------------------------------------------------
(* scoring.score_and_style: the weight of one (deviation, threshold) pair. *)
(* Its file is not part of the sources; the weight follows the Trend       *)
(* Scorer of the specification (threshold compared as a fraction).         *)

score_and_style(diff, thr) ==
    IF FLt(diff, Zero) THEN IntVal(1)
    ELSE IF FGe(diff, Zero) /\ FLt(diff, Norm(thr, 100)) THEN Norm(1, 2)
    ELSE IntVal(-1)

---------------------------------------------------------------------------
(* streamlit_app.py: scores and allocations *)

\* a window needing more observations than its size
EvaluableStrict(s, w) == SLen(s) > w

\* "if len(s) >= w" of the generator
Evaluable(s, w) == SLen(s) >= w

\* (last - s.tail(w).mean()) / s.tail(w).mean()
Deviation(s, w) ==
    LET last == iloc(s, 1)
        mean == TailMean(s, w)
    IN  FDiv(FSub(last, mean), mean)

RECURSIVE SumWeights(_, _, _)
SumWeights(s, thr, i) ==
    IF i > Len(TIMEFRAMES) THEN Zero
    ELSE LET w == TIMEFRAMES[i].w
         IN  IF Evaluable(s, w)
             THEN FAdd(score_and_style(Deviation(s, w), thr),
                       SumWeights(s, thr, i + 1))
             ELSE SumWeights(s, thr, i + 1)

\* st.session_state.get(win_key, "Annuel")
period_lbl(name) == IF session[name] = "" THEN "Annuel" ELSE session[name]

\* the score taken from the window selected in the session only
RawScoreSelected(name) ==
    LET s == dropna(prices[name])
        i == CHOOSE k \in 1..Len(TIMEFRAMES) : TIMEFRAMES[k].lbl = period_lbl(name)
    IN  IF SLen(s) < 1 \/ ~Evaluable(s, TIMEFRAMES[i].w) THEN Zero
        ELSE score_and_style(Deviation(s, TIMEFRAMES[i].w), threshold_pct)

\* one iteration of the loop over prices.items()
RawScore(name) ==
    LET s == dropna(prices[name])
    IN  IF SLen(s) < 1 THEN Zero ELSE SumWeights(s, threshold_pct, 1)

RECURSIVE FSumOrd(_, _)
FSumOrd(f, ord) ==
    IF ord = <<>> THEN Zero ELSE FAdd(f[Head(ord)], FSumOrd(f, Tail(ord)))

\* min(raw_scores.values()), for a non-empty mapping
min_score(scores) ==
    CHOOSE v \in {scores[a] : a \in DOMAIN scores} :
        \A a \in DOMAIN scores : ~FLt(scores[a], v)

\* no shift: plain fraction of the total
ShiftNone(scores) == Zero

\* a shift one unit too large
ShiftOffByOne(scores) ==
    IF FLt(min_score(scores), Zero)
    THEN FAdd(FSub(Zero, min_score(scores)), IntVal(1)) ELSE Zero

Shift(scores) ==
    IF FLt(min_score(scores), Zero) THEN FSub(Zero, min_score(scores)) ELSE Zero

adj_scores(scores) == [a \in DOMAIN scores |-> FAdd(scores[a], Shift(scores))]

\* the total taken before the shift
TotalOfRaw(scores, ord) ==
    LET t == FSumOrd(scores, ord) IN IF t = Zero THEN IntVal(1) ELSE t

\* sum(adj_scores.values()) or 1.0
Total(scores, ord) ==
    LET t == FSumOrd(adj_scores(scores), ord) IN IF t = Zero THEN IntVal(1) ELSE t

Allocations(scores, ord) ==
    [a \in DOMAIN scores |->
        FMulInt(FDiv(adj_scores(scores)[a], Total(scores, ord)), Ceiling)]

---------------------------------------------------------------------------
(* pct_change *)

\* the ratio taken the wrong way round
PctChangeSwapped(s) ==
    IF SLen(s) < 2 THEN Zero
    ELSE FMulInt(FSub(FDiv(iloc(s, 2), iloc(s, 1)), IntVal(1)), 100)

pct_change(s) ==
    IF SLen(s) < 2 THEN Zero
    ELSE FMulInt(FSub(FDiv(iloc(s, 1), iloc(s, 2)), IntVal(1)), 100)

---------------------------------------------------------------------------
(* dca_dashboard_streamlit.py: green counts, allocation, arbitrage alerts *)

\* len(series) >= window and series.iloc[-1] < series.iloc[-window:].mean()
GreenWindow(series, w) ==
    SLen(series) >= w /\ FLt(iloc(series, 1), TailMean(series, w))

compute_green_counts(df) ==
    [name \in DOMAIN df |->
        Cardinality({i \in 1..Len(timeframes) :
                        GreenWindow(df[name], timeframes[i].w)})]

RECURSIVE SumOrd(_, _)
SumOrd(f, ord) == IF ord = <<>> THEN 0 ELSE f[Head(ord)] + SumOrd(f, Tail(ord))

\* sum(green_counts.values()) or 1
total_green(counts, ord) ==
    LET t == SumOrd(counts, ord) IN IF t = 0 THEN 1 ELSE t

\* (count / total_green) * 50
GreenAllocations(counts, ord) ==
    [name \in DOMAIN counts |->
        FMulInt(Norm(counts[name], total_green(counts, ord)), Ceiling)]

\* abs(deltas[i] - deltas[j])
Gap(d, i, j) == FAbs(FSub(d[i], d[j]))

\* pairs in both orientations
PairDistinct(d, ord, pi, pj, t) ==
    ord[pi] # ord[pj] /\ FGt(Gap(d, ord[pi], ord[pj]), IntVal(t))

\* the filter of the comprehension, for the names at positions pi and pj
PairQualifies(d, ord, pi, pj, t) ==
    ord[pi] < ord[pj] /\ FGt(Gap(d, ord[pi], ord[pj]), IntVal(t))

\* [(i, j, abs(...)) for i in deltas for j in deltas if ...], with its t
pairs(d, ord, t) ==
    LET k       == Len(ord)
        all     == [q \in 1..(k * k) |-> <<((q - 1) \div k) + 1, ((q - 1) % k) + 1>>]
        Test(p) == PairQualifies(d, ord, p[1], p[2], t)
        sel     == SelectSeq(all, Test)
    IN  [q \in 1..Len(sel) |->
            <<ord[sel[q][1]], ord[sel[q][2]],
              Gap(d, ord[sel[q][1]], ord[sel[q][2]]), t>>]

\* for t in sorted(thresholds, reverse=True): the lines written
RECURSIVE Alerts(_, _, _)
Alerts(d, ord, ths) ==
    IF ths = {} THEN <<>>
    ELSE LET t == CHOOSE x \in ths : \A y \in ths : y <= x
         IN  pairs(d, ord, t) \o Alerts(d, ord, ths \ {t})

\* idx % 2 == 1: after every second card
AlertsDue(i) == i % 2 = 1

---------------------------------------------------------------------------
(* Inputs *)

\* series as loaded; the app drops the missing values of each
AppShapes ==
    { <<>>,
      <<Run(100, 3)>>,
      <<Run(0, 5)>>,
      <<Run(100, 5), Run(120, 1)>>,
      <<Run(100, 20), Run(90, 1)>>,
      <<Run(100, 1259), Missing(1), Run(90, 1)>> }

\* the columns of one DataFrame share its index: every series of a frame
\* has the frame's length, padded with missing values
DashFrames ==
    { { <<>> },
      { <<Run(100, 1)>> },
      { <<Run(100, 1), Run(112, 1)>>,
        <<Run(100, 2)>>,
        <<Run(0, 1), Run(5, 1)>> },
      { <<Run(100, 20), Run(90, 1)>>,
        <<Run(100, 10), Missing(1), Run(100, 9), Run(112, 1)>>,
        <<Missing(21)>> } }

SliderChoices == {10, 20}

ThresholdChoices == {{}, {5, 10, 15}}

ClickLabels == {"Hebdo"}

N == Len(prices)

Names == 1..N

Identity(k) == [i \in 1..k |-> i]

Orders(k) ==
    { Identity(k), [i \in 1..k |-> k + 1 - i], [i \in 1..k |-> (i % k) + 1] }

\* the badge buttons a user can have clicked: cards of non-empty series
ClickChoices ==
    {<<>>} \cup
    {<<a, l>> : a \in {x \in Names : SLen(dropna(prices[x])) > 0}, l \in ClickLabels}

SeriesMaps(shapes, k) == UNION {[1..j -> shapes] : j \in 0..k}

Fresh ==
    /\ pc = "start"
    /\ idx = 0
    /\ raw_scores = <<>>
    /\ allocations = <<>>
    /\ deltas = <<>>
    /\ green_counts = <<>>
    /\ m = <<>>
    /\ emitted = <<>>

Init ==
    /\ script \in {"app", "dash"}
    /\ prices \in (IF script = "app" THEN SeriesMaps(AppShapes, MaxAssetsApp)
                   ELSE UNION {SeriesMaps(F, MaxAssetsDash) : F \in DashFrames})
    /\ order = Identity(Len(prices))
    /\ threshold_pct \in (IF script = "app" THEN SliderChoices ELSE {10})
    /\ thresholds \in (IF script = "dash" THEN ThresholdChoices ELSE {{5, 10, 15}})
    /\ session = [a \in 1..Len(prices) |-> ""]
    /\ clicked \in (IF script = "app" THEN ClickChoices ELSE {<<>>})
    /\ Fresh
    /\ prev = <<>>
    /\ runs = 1

---------------------------------------------------------------------------
(* streamlit_app.py, one run *)

\* lines 35-45
AppScores ==
    /\ script = "app"
    /\ pc = "start"
    /\ raw_scores' = [a \in Names |-> RawScore(a)]
    /\ pc' = "normalise"
    /\ UNCHANGED <<script, prices, order, threshold_pct, thresholds, session,
                   clicked, idx, allocations, deltas, green_counts, m, emitted,
                   prev, runs>>

\* lines 47-65; min() of an empty mapping raises ValueError
AppNormalise ==
    /\ script = "app"
    /\ pc = "normalise"
    /\ IF N = 0
       THEN /\ pc' = "error"
            /\ UNCHANGED <<allocations, deltas>>
       ELSE /\ allocations' = Allocations(raw_scores, order)
            /\ deltas' = [a \in Names |-> pct_change(dropna(prices[a]))]
            /\ pc' = "cards"
    /\ UNCHANGED <<script, prices, order, threshold_pct, thresholds, session,
                   clicked, idx, raw_scores, green_counts, m, emitted, prev, runs>>

\* lines 118-137: the badges of one card.  mm is the script-level m, <<>>
\* while unassigned; formatting 'N/A' with ':.2f' raises ValueError.
RECURSIVE BadgeLoop(_, _, _, _, _)
BadgeLoop(data, name, i, mm, sess) ==
    IF i > Len(TIMEFRAMES) THEN [m |-> mm, session |-> sess, raised |-> FALSE]
    ELSE LET tf    == TIMEFRAMES[i]
             m1    == IF SLen(data) >= tf.w THEN <<TailMean(data, tf.w)>> ELSE mm
             sess1 == IF clicked = <<name, tf.lbl>>
                      THEN [sess EXCEPT ![name] = tf.lbl] ELSE sess
         IN  IF m1 = <<>>
             THEN [m |-> m1, session |-> sess1, raised |-> TRUE]
             ELSE BadgeLoop(data, name, i + 1, m1, sess1)

\* lines 77-163, one iteration
AppCard ==
    /\ script = "app"
    /\ pc = "cards"
    /\ LET name == order[idx + 1]
           data == dropna(prices[name])
           r    == BadgeLoop(data, name, 1, m, session)
           last == IF idx + 1 = N THEN "done" ELSE "cards"
       IN  IF SLen(data) = 0
           THEN /\ idx' = idx + 1
                /\ pc' = last
                /\ UNCHANGED <<m, session>>
           ELSE /\ m' = r.m
                /\ session' = r.session
                /\ idx' = IF r.raised THEN idx ELSE idx + 1
                /\ pc' = IF r.raised THEN "error" ELSE last
    /\ UNCHANGED <<script, prices, order, threshold_pct, thresholds, clicked,
                   raw_scores, allocations, deltas, green_counts, emitted,
                   prev, runs>>

---------------------------------------------------------------------------
(* dca_dashboard_streamlit.py, one run *)

\* lines 99-113
DashCompute ==
    /\ script = "dash"
    /\ pc = "start"
    /\ deltas' = [a \in Names |-> pct_change(prices[a])]
    /\ green_counts' = compute_green_counts(prices)
    /\ allocations' = GreenAllocations(compute_green_counts(prices), order)
    /\ pc' = IF N = 0 THEN "done" ELSE "cards"
    /\ UNCHANGED <<script, prices, order, threshold_pct, thresholds, session,
                   clicked, idx, raw_scores, m, emitted, prev, runs>>

\* lines 137-206, one iteration
DashCard ==
    /\ script = "dash"
    /\ pc = "cards"
    /\ emitted' = IF AlertsDue(idx) /\ thresholds # {}
                  THEN emitted \o Alerts(deltas, order, thresholds)
                  ELSE emitted
    /\ idx' = idx + 1
    /\ pc' = IF idx + 1 = N THEN "done" ELSE "cards"
    /\ UNCHANGED <<script, prices, order, threshold_pct, thresholds, session,
                   clicked, raw_scores, allocations, deltas, green_counts, m,
                   prev, runs>>

---------------------------------------------------------------------------
(* The script runs again on the same snapshot *)

SeqSet(q) == {q[i] : i \in 1..Len(q)}

Results ==
    [scores |-> raw_scores, allocations |-> allocations,
     counts |-> green_counts, alerts |-> SeqSet(emitted)]

Rerun ==
    /\ pc \in {"done", "error"}
    /\ runs < MaxRuns
    /\ runs' = runs + 1
    /\ prev' = <<Results>>
    /\ order' \in Orders(N)
    /\ clicked' \in (IF script = "app" THEN ClickChoices ELSE {<<>>})
    /\ pc' = "start"
    /\ idx' = 0
    /\ raw_scores' = <<>>
    /\ allocations' = <<>>
    /\ deltas' = <<>>
    /\ green_counts' = <<>>
    /\ m' = <<>>
    /\ emitted' = <<>>
    /\ UNCHANGED <<script, prices, threshold_pct, thresholds, session>>

Next == AppScores \/ AppNormalise \/ AppCard \/ DashCompute \/ DashCard \/ Rerun

Spec == Init /\ [][Next]_vars

---------------------------------------------------------------------------
(* Vocabulary of the properties *)

FSum(f) == FSumOrd(f, Identity(Len(f)))

\* the series pct_change and the scores see: the app drops missing values
Seen(a) == IF script = "app" THEN dropna(prices[a]) ELSE prices[a]

Observations(a) == SLen(dropna(prices[a]))

\* the windows whose size is at most n
WindowsUpTo(n) == {i \in 1..Len(TIMEFRAMES) : TIMEFRAMES[i].w <= n}

EvaluableWindows(a) == WindowsUpTo(Observations(a))

\* the trend weight of window i on the non-missing observations s
Weight(s, i) == score_and_style(Deviation(s, TIMEFRAMES[i].w), threshold_pct)

RECURSIVE WeightSum(_, _)
WeightSum(s, W) ==
    IF W = {} THEN Zero
    ELSE LET i == CHOOSE x \in W : TRUE
         IN  FAdd(Weight(s, i), WeightSum(s, W \ {i}))

LeastScore == CHOOSE v \in SeqSet(raw_scores) : \A u \in SeqSet(raw_scores) : FGe(u, v)

\* max(0, -min score)
ExpectedShift == IF FLt(LeastScore, Zero) THEN FSub(Zero, LeastScore) ELSE Zero

\* sum over the assets of score + shift
AdjustedTotal == FSum([a \in Names |-> FAdd(raw_scores[a], ExpectedShift)])

AppAllocated == script = "app" /\ allocations # <<>>

DashAllocated == script = "dash" /\ allocations # <<>>

RECURSIVE Occurrences(_, _)
Occurrences(q, e) ==
    IF q = <<>> THEN 0
    ELSE (IF Head(q) = e THEN 1 ELSE 0) + Occurrences(Tail(q), e)

Qualifies(a, b, t) == FGt(Gap(deltas, a, b), IntVal(t))

DashDone == script = "dash" /\ pc = "done"

\* raw_scores is assigned by AppScores alone, deltas and green_counts by
\* AppNormalise and DashCompute alone: their values are examined in the
\* states these actions lead to
Scored == script = "app" /\ pc = "normalise"

Counted == script = "dash" /\ green_counts # <<>> /\ idx = 0

DeltasComputed == deltas # <<>> /\ idx = 0

---------------------------------------------------------------------------
(* Properties *)

\* C1: whenever the adjusted total (sum of score + shift, shift =
\* max(0, -min score)) is not zero, the allocations of the normaliser sum to
\* exactly the ceiling 50; the same for the count-based allocations whenever
\* some asset has a green count > 0.
C1_AllocationsSumToCeiling ==
    /\ (AppAllocated /\ AdjustedTotal # Zero)
          => FSum(allocations) = IntVal(Ceiling)
    /\ (DashAllocated /\ \E a \in Names : green_counts[a] > 0)
          => FSum(allocations) = IntVal(Ceiling)

C1_Witness ==
    /\ AppAllocated
    /\ N >= 2
    /\ FLt(LeastScore, Zero)
    /\ AdjustedTotal # Zero

\* C2: every allocation is non-negative, whatever the scores; when the
\* adjusted total is zero (denominator 1.0) every allocation is exactly 0.
C2_AllocationsNonNegative ==
    /\ \A a \in DOMAIN allocations : FGe(allocations[a], Zero)
    /\ (AppAllocated /\ AdjustedTotal = Zero)
          => \A a \in Names : allocations[a] = Zero
    /\ (DashAllocated /\ \A a \in Names : green_counts[a] = 0)
          => \A a \in Names : allocations[a] = Zero

C2_Witness ==
    /\ AppAllocated
    /\ N >= 2
    /\ FLt(LeastScore, Zero)
    /\ AdjustedTotal = Zero
    /\ \A a \in Names : allocations[a] = Zero

\* C3: for every threshold t the pairs written are exactly the unordered
\* pairs {A, B} of distinct assets with |delta(A) - delta(B)| > t, with no
\* self-pair and each pair in one orientation only.
C3_PairsExact ==
    (DashDone /\ N >= 2) =>
        \A t \in thresholds :
            LET written == {e \in SeqSet(emitted) : e[4] = t}
            IN  /\ {{e[1], e[2]} : e \in written} =
                       {{a, b} : <<a, b>> \in
                           {p \in Names \X Names :
                               p[1] # p[2] /\ Qualifies(p[1], p[2], t)}}
                /\ \A e \in written : e[1] # e[2] /\ e[3] = Gap(deltas, e[1], e[2])
                /\ \A e, f \in written : ~(e[1] = f[2] /\ e[2] = f[1])

C3_Witness ==
    /\ DashDone
    /\ N >= 3
    /\ order # Identity(N)
    /\ \E t \in thresholds : \E a, b, c \in Names :
          /\ a < b
          /\ Qualifies(a, b, t)
          /\ <<a, b, Gap(deltas, a, b), t>> \in SeqSet(emitted)
          /\ ~Qualifies(a, c, t)
          /\ a # c

\* C4: one evaluation pass never raises, whatever the inputs (an empty
\* mapping, empty or short series): it never reaches an error state.
C4_PassNeverRaises == pc # "error"

\* C5: a window whose trailing mean is 0 is skipped when the composite score
\* is computed: it contributes no weight.
C5_ZeroMeanWindowSkipped ==
    Scored =>
        \A a \in Names :
            LET s == dropna(prices[a])
            IN  raw_scores[a] =
                    WeightSum(s, {i \in WindowsUpTo(SLen(s)) :
                                     TailMean(s, TIMEFRAMES[i].w) # Zero})

\* C6: the composite score is the sum of the trend weights (each 1, 1/2 or
\* -1) over exactly the windows whose size is at most the number of
\* non-missing observations; with no such window it is 0; it lies between
\* -k and k for k such windows.  A green count counts evaluable windows only.
C6_CompositeScore ==
    /\ Scored =>
          \A a \in Names :
             LET s == dropna(prices[a])
                 W == WindowsUpTo(SLen(s))
                 k == Cardinality(W)
             IN  /\ raw_scores[a] = WeightSum(s, W)
                 /\ \A i \in W :
                       Weight(s, i) \in {IntVal(1), Norm(1, 2), IntVal(-1)}
                 /\ k = 0 => raw_scores[a] = Zero
                 /\ FGe(raw_scores[a], IntVal(-k))
                 /\ FGe(IntVal(k), raw_scores[a])
    /\ Counted =>
          \A a \in Names :
             green_counts[a] <=
                 Cardinality({i \in 1..Len(timeframes) :
                                 timeframes[i].w <= SLen(prices[a])})

C6_Witness ==
    /\ Scored
    /\ \E a, b \in Names :
          /\ Cardinality(EvaluableWindows(a)) = 2
          /\ raw_scores[a] = IntVal(2)
          /\ Observations(b) > 0
          /\ EvaluableWindows(b) = {}

\* C7: in one pass over at least two assets every qualifying alert (pair,
\* threshold) is written exactly once.
C7_EachAlertOnce ==
    (DashDone /\ N >= 2) =>
        \A t \in thresholds : \A a, b \in Names :
            (a < b /\ Qualifies(a, b, t)) =>
                Occurrences(emitted, <<a, b, Gap(deltas, a, b), t>>) = 1

\* C8: pct_change is exactly 0 for a series of fewer than 2 values, and
\* (last / secondToLast - 1) * 100 otherwise, whatever the other values.
C8_PctChange ==
    DeltasComputed =>
        /\ \A a \in Names :
              LET s == Seen(a)
              IN  IF SLen(s) < 2 THEN deltas[a] = Zero
                  ELSE LET last == iloc(s, 1)
                           scnd == iloc(s, 2)
                           d    == deltas[a]
                       IN  IF IsNaN(last) \/ IsNaN(scnd) THEN IsNaN(d)
                           ELSE IF scnd = Zero THEN d = <<Sgn(last[1]), 0>>
                           ELSE /\ IsFinite(d)
                                /\ d[1] * scnd[1] = (last[1] - scnd[1]) * 100 * d[2]
        /\ \A a, b \in Names :
              (/\ SLen(Seen(a)) >= 2
               /\ SLen(Seen(b)) >= 2
               /\ iloc(Seen(a), 1) = iloc(Seen(b), 1)
               /\ iloc(Seen(a), 2) = iloc(Seen(b), 2)) => deltas[a] = deltas[b]

C8_Witness ==
    /\ DeltasComputed
    /\ \E a, b \in Names :
          /\ SLen(Seen(a)) < 2
          /\ deltas[a] = Zero
          /\ SLen(Seen(b)) > 2
          /\ IsFinite(deltas[b])
          /\ deltas[b] # Zero

\* C9: a run of the script on the same snapshot and threshold ends with the
\* same scores, allocations and alert set as the run before it, whatever
\* the session state and the iteration order of the mapping.
C9_RerunSameResults ==
    (prev # <<>> /\ pc \in {"done", "error"}) => Results = prev[1]

C9_Witness ==
    /\ prev # <<>>
    /\ pc = "done"
    /\ script = "app"
    /\ N >= 2
    /\ order # Identity(N)
    /\ clicked = <<>>
    /\ \E a \in Names : session[a] # ""
    /\ \E a, b \in Names : allocations[a] # allocations[b]

\* C10: when the least score is negative every asset holding it gets
\* allocation 0; allocation is monotone in the score; when all assets share
\* a score s each gets 50/n if s > 0 and 0 if s <= 0.
C10_WorstPinnedToZero ==
    AppAllocated =>
        /\ FLt(LeastScore, Zero) =>
              \A a \in Names : raw_scores[a] = LeastScore => allocations[a] = Zero
        /\ \A a, b \in Names :
              FGe(raw_scores[a], raw_scores[b]) => FGe(allocations[a], allocations[b])
        /\ (\A a \in Names : raw_scores[a] = LeastScore) =>
              \A a \in Names :
                 allocations[a] =
                    IF FGt(LeastScore, Zero) THEN Norm(Ceiling, N) ELSE Zero

C10_Witness ==
    /\ AppAllocated
    /\ N >= 2
    /\ FLt(LeastScore, Zero)
    /\ \E a, b \in Names :
          /\ raw_scores[a] = LeastScore
          /\ allocations[a] = Zero
          /\ FGt(allocations[b], Zero)

====
